---- MODULE Spec2Model ----
(***************************************************************************)
(* Model of the rtrace renderer (Rust port of Yocto/GL's path tracer).     *)
(*                                                                         *)
(* These specifications share this module:                                   *)
(*   Spec      the render driver: RaytraceParams::from_args,               *)
(*             RaytraceState::from_scene and raytrace_samples with its     *)
(*             rayon pixel tasks (src/src/utils.rs, src/src/trace.rs,      *)
(*             src/src/main.rs);                                           *)
(*   PathSpec  one call of shade_naive / shade_raytrace, the loop of       *)
(*             src/src/trace.rs:157-364, one action per step of an         *)
(*             iteration of the loop (PathFairSpec: the call keeps         *)
(*             running until it returns);                                  *)
(*   FnSpec    single calls of the shading, sampling and setup functions   *)
(*             (src/src/shading.rs, src/src/scene.rs, src/src/utils.rs),   *)
(*             each applied to inputs drawn from small sets.               *)
(* Vec3/Vec4 radiance and weights are modelled by one scalar channel,      *)
(* weights in hundredths (100 = 1.0).                                      *)
(***************************************************************************)
EXTENDS Integers, Naturals, Sequences, FiniteSets, TLC

\* ------------------------------------------------------------------------
\* Bounds of the model
\* ------------------------------------------------------------------------
NumPixels == 2      \* state.width * state.height
RngMod == 3         \* size of one SmallRng's state space
MaxCalls == 3       \* raytrace_samples invocations made by the caller
MaxSamples == 2     \* largest params.samples
MaxDraws == 2       \* rand1 draws one path-tracing shader call may make
MaxBounces == 5     \* largest params.bounces
MaxSkips == 1       \* opacity skips along one path
MaxNest == 2        \* media nested around one point of the scene
MaxRadiance == 1    \* emission is met only while radiance is below this
MaxElems == 3       \* elements (triangles, quads, texels) of one light
MaxWeight == 3      \* largest weight of one element
MaxResolution == 3  \* largest params.resolution

\* ------------------------------------------------------------------------
\* State
\* ------------------------------------------------------------------------
VARIABLES
    \* --- render driver ---
    dpc,          \* position of main: "setup", "idle", "running", "panicked"
    argShader,    \* value of the --shader argument
    shader,       \* params.shader
    psamples,     \* params.samples
    pclamp,       \* params.clamp
    nlights,      \* scene.lights.len()
    samples,      \* state.samples
    image,        \* state.image, one accumulated value per pixel slot
    rngs,         \* state.rngs, one generator state per pixel
    calls,        \* number of raytrace_samples invocations so far
    tpc,          \* per pixel task: position inside the for_each closure
    rad,          \* per pixel task: local `radiance`
    tmp,          \* per pixel task: value loaded from the slot by `+=`
    ndraw,        \* per pixel task: rand1 draws made by the shader call
    pre,          \* state as it was when the running call was entered
    hist,         \* per pixel: the post-clamp samples added so far
    \* --- path integrator ---
    ppc,          \* position inside the shader call
    integrator,   \* "naive" or "raytrace"
    bounces,      \* params.bounces
    bounce,       \* loop counter `bounce`
    weight,       \* throughput `weight`
    radiance,     \* `radiance`
    volume_stack, \* `volume_stack` (shade_raytrace only)
    hit_alpha,    \* `hit_alpha`
    material,     \* `material` of the surface point being shaded
    sampler,      \* the direction sampler the iteration called
    inside,       \* media that really surround the ray origin (scene truth)
    events,       \* non-skipped events (surface hits, medium events) so far
    skips,        \* opacity skips so far
    \* --- single function calls ---
    invoked,      \* the function called and its arguments
    result        \* the value it returned

drvVars == <<dpc, argShader, shader, psamples, pclamp, samples, image, rngs,
             calls, tpc, rad, tmp, ndraw, pre, hist>>
pathVars == <<ppc, integrator, bounces, bounce, weight, radiance,
              volume_stack, hit_alpha, material, sampler, inside, events,
              skips>>
fnVars == <<invoked, result>>
vars == <<drvVars, nlights, pathVars, fnVars>>

Pixels == 0 .. (NumPixels - 1)

\* ------------------------------------------------------------------------
\* RaytraceParams::from_args (utils.rs:73-95)
\* ------------------------------------------------------------------------
KnownShaders == {"color", "eyelight", "normal", "position", "naive", "raytrace"}

\* names a user may pass to --shader
ShaderArgs == KnownShaders \cup {"pathtrace"}

\* the match of utils.rs:76-84
ShaderOf(name) ==
    CASE name = "color" -> "shade_color"
      [] name = "eyelight" -> "shade_eyelight"
      [] name = "normal" -> "shade_normals"
      [] name = "position" -> "shade_position"
      [] name = "naive" -> "shade_naive"
      [] name = "raytrace" -> "shade_raytrace"
      [] OTHER -> "shade_raytrace"

\* shaders that take `rng` (the others take `_rng`)
UsesRng(sh) == sh \in {"shade_naive", "shade_raytrace"}

\* ------------------------------------------------------------------------
\* Per-pixel random number generators (utils.rs:154-163)
\* ------------------------------------------------------------------------
RngNext(s) == (s + 1) % RngMod
RngOut(s) == s

\* rand1: one number under one lock
Rand1Value(s) == RngOut(s)
Rand1State(s) == RngNext(s)
\* rand2: two numbers under one lock
Rand2Value(s) == RngOut(s) + RngOut(RngNext(s))
Rand2State(s) == RngNext(RngNext(s))

\* states SmallRng::from_entropy() may hand to a pixel (utils.rs:141)
Seeds == {0, 2}

\* the generator the task of pixel idx draws from: &state.rngs[idx]
RngOfShared(idx) == 0
RngOf(idx) == idx

\* the slot the task of pixel idx adds to: image_ptr.add(idx)
SlotOfShared(idx) == 0
SlotOf(idx) == idx

\* `*slot += radiance`
AccumulateOverwrite(old, r) == r
Accumulate(old, r) == old + r

\* the early return of trace.rs:56
CappedOffByOne(s, cap) == s > cap
Capped(s, cap) == s >= cap

\* trace.rs:74-76 on one channel: radiance * (clamp / radiance.max())
Clamp(r, c) == IF c # 0 /\ r > c THEN c ELSE r

\* values of --clamp
ClampArgs == {0, 3}

\* `rand1(rng) < 0.5` is false: the light-sampling strategy is chosen
PicksLights(r) == 2 * r >= RngMod

\* the shader call stops drawing: the path ended or ran out of bounces
ShadeStops(r, n) == r = 0 \/ n + 1 >= MaxDraws

\* sample_lights on an empty light list: sample_uniform(0, r) computes
\* size - 1 on a usize and lights[light_id] indexes an empty Vec
ShaderPanics(sh, r) == sh = "shade_raytrace" /\ nlights = 0 /\ PicksLights(r)

\* ------------------------------------------------------------------------
\* Render driver: main (main.rs:83-97) and raytrace_samples (trace.rs:50-81)
\* ------------------------------------------------------------------------
TaskIdle == [p \in Pixels |-> "idle"]
Zeros == [p \in Pixels |-> 0]

DriverInit ==
    /\ dpc = "setup"
    /\ argShader \in ShaderArgs
    /\ shader = "shade_raytrace"
    /\ psamples \in -1 .. MaxSamples
    /\ pclamp \in ClampArgs
    /\ nlights \in {0, 1}
    /\ samples = 0
    /\ image = Zeros
    /\ rngs = Zeros
    /\ calls = 0
    /\ tpc = TaskIdle
    /\ rad = Zeros
    /\ tmp = Zeros
    /\ ndraw = Zeros
    /\ pre = [samples |-> 0, image |-> Zeros, rngs |-> Zeros]
    /\ hist = [p \in Pixels |-> <<>>]

\* RaytraceParams::from_args followed by RaytraceState::from_scene
\* (main.rs:83-90): every shader name yields a shader, the state starts at
\* zero samples with a zeroed buffer and one entropy-seeded generator per pixel
Setup ==
    /\ dpc = "setup"
    /\ shader' = ShaderOf(argShader)
    /\ samples' = 0
    /\ image' = Zeros
    /\ rngs' \in [Pixels -> Seeds]
    /\ dpc' = "idle"
    /\ UNCHANGED <<argShader, psamples, pclamp, nlights, calls, tpc, rad, tmp,
                   ndraw, pre, hist>>

\* raytrace_samples entered with state.samples >= params.samples: returns
CallCappedCounts ==
    /\ dpc = "idle"
    /\ calls < MaxCalls
    /\ Capped(samples, psamples)
    /\ calls' = calls + 1
    /\ samples' = samples + 1
    /\ UNCHANGED <<dpc, argShader, shader, psamples, pclamp, nlights,
                   image, rngs, tpc, rad, tmp, ndraw, pre, hist>>
CallCapped ==
    /\ dpc = "idle"
    /\ calls < MaxCalls
    /\ Capped(samples, psamples)
    /\ calls' = calls + 1
    /\ UNCHANGED <<dpc, argShader, shader, psamples, pclamp, nlights, samples,
                   image, rngs, tpc, rad, tmp, ndraw, pre, hist>>

\* raytrace_samples entered below the cap: state.samples += 1, then one
\* rayon task per pixel index
CallStart ==
    /\ dpc = "idle"
    /\ calls < MaxCalls
    /\ ~Capped(samples, psamples)
    /\ calls' = calls + 1
    /\ pre' = [samples |-> samples, image |-> image, rngs |-> rngs]
    /\ samples' = samples + 1
    /\ tpc' = [p \in Pixels |-> "puv"]
    /\ rad' = Zeros
    /\ tmp' = Zeros
    /\ ndraw' = Zeros
    /\ dpc' = "running"
    /\ UNCHANGED <<argShader, shader, psamples, pclamp, nlights, image, rngs,
                   hist>>

\* let puv = rand2(rng)  (trace.rs:66-67)
TaskPuv(p) ==
    /\ dpc = "running"
    /\ tpc[p] = "puv"
    /\ rad' = [rad EXCEPT ![p] = 1 + Rand2Value(rngs[RngOf(p)])]
    /\ rngs' = [rngs EXCEPT ![RngOf(p)] = Rand2State(rngs[RngOf(p)])]
    /\ tpc' = [tpc EXCEPT ![p] = "lens"]
    /\ UNCHANGED <<dpc, argShader, shader, psamples, pclamp, nlights, samples,
                   image, calls, tmp, ndraw, pre, hist>>

\* camera.eval(uv, sample_disk(rand2(rng)))  (trace.rs:72)
TaskLens(p) ==
    /\ dpc = "running"
    /\ tpc[p] = "lens"
    /\ rad' = [rad EXCEPT ![p] = rad[p] + Rand2Value(rngs[RngOf(p)])]
    /\ rngs' = [rngs EXCEPT ![RngOf(p)] = Rand2State(rngs[RngOf(p)])]
    /\ tpc' = [tpc EXCEPT ![p] = "shade"]
    /\ UNCHANGED <<dpc, argShader, shader, psamples, pclamp, nlights, samples,
                   image, calls, tmp, ndraw, pre, hist>>

\* (params.shader)(...) for a shader that ignores rng, then the clamp
TaskShadeFlat(p) ==
    /\ dpc = "running"
    /\ tpc[p] = "shade"
    /\ ~UsesRng(shader)
    /\ rad' = [rad EXCEPT ![p] = Clamp(rad[p], pclamp)]
    /\ tpc' = [tpc EXCEPT ![p] = "load"]
    /\ UNCHANGED <<dpc, argShader, shader, psamples, pclamp, nlights, samples,
                   image, rngs, calls, tmp, ndraw, pre, hist>>

\* one rand1 draw of shade_naive / shade_raytrace; after the last one the
\* shader returns and the clamp is applied (trace.rs:73-76)
TaskShadeDraw(p) ==
    /\ dpc = "running"
    /\ tpc[p] = "shade"
    /\ UsesRng(shader)
    /\ LET r == Rand1Value(rngs[RngOf(p)]) IN
        /\ ~ShaderPanics(shader, r)
        /\ rngs' = [rngs EXCEPT ![RngOf(p)] = Rand1State(rngs[RngOf(p)])]
        /\ IF ShadeStops(r, ndraw[p])
             THEN /\ rad' = [rad EXCEPT ![p] = Clamp(rad[p] + r, pclamp)]
                  /\ tpc' = [tpc EXCEPT ![p] = "load"]
             ELSE /\ rad' = [rad EXCEPT ![p] = rad[p] + r]
                  /\ tpc' = tpc
        /\ ndraw' = [ndraw EXCEPT ![p] = ndraw[p] + 1]
    /\ UNCHANGED <<dpc, argShader, shader, psamples, pclamp, nlights, samples,
                   image, calls, tmp, pre, hist>>

\* the shader call panics inside a pixel task; rayon rethrows the panic in
\* the caller of for_each and main unwinds
TaskPanic(p) ==
    /\ dpc = "running"
    /\ tpc[p] = "shade"
    /\ UsesRng(shader)
    /\ ShaderPanics(shader, Rand1Value(rngs[RngOf(p)]))
    /\ dpc' = "panicked"
    /\ UNCHANGED <<argShader, shader, psamples, pclamp, nlights, samples,
                   image, rngs, calls, tpc, rad, tmp, ndraw, pre, hist>>

\* `*ptr.add(idx) += radiance`, the read half  (trace.rs:78)
TaskLoad(p) ==
    /\ dpc = "running"
    /\ tpc[p] = "load"
    /\ tmp' = [tmp EXCEPT ![p] = image[SlotOf(p)]]
    /\ tpc' = [tpc EXCEPT ![p] = "store"]
    /\ UNCHANGED <<dpc, argShader, shader, psamples, pclamp, nlights, samples,
                   image, rngs, calls, rad, ndraw, pre, hist>>

\* `*ptr.add(idx) += radiance`, the write half  (trace.rs:78)
TaskStore(p) ==
    /\ dpc = "running"
    /\ tpc[p] = "store"
    /\ image' = [image EXCEPT ![SlotOf(p)] = Accumulate(tmp[p], rad[p])]
    /\ hist' = [hist EXCEPT ![p] = Append(hist[p], rad[p])]
    /\ tpc' = [tpc EXCEPT ![p] = "done"]
    /\ UNCHANGED <<dpc, argShader, shader, psamples, pclamp, nlights, samples,
                   rngs, calls, rad, tmp, ndraw, pre>>

\* for_each returns when every pixel task has finished; raytrace_samples
\* returns to its caller
Join ==
    /\ dpc = "running"
    /\ \A p \in Pixels : tpc[p] = "done"
    /\ dpc' = "idle"
    /\ tpc' = TaskIdle
    /\ UNCHANGED <<argShader, shader, psamples, pclamp, nlights, samples,
                   image, rngs, calls, rad, tmp, ndraw, pre, hist>>

\* the integrator's variables while no path is modelled
NoMaterial == [m_type |-> "none", roughness |-> 0]

PathIdle ==
    /\ ppc = "idle"
    /\ integrator = "raytrace"
    /\ bounces = 0
    /\ bounce = 0
    /\ weight = 100
    /\ radiance = 0
    /\ volume_stack = <<>>
    /\ hit_alpha = 0
    /\ material = NoMaterial
    /\ sampler = "none"
    /\ inside = 0
    /\ events = 0
    /\ skips = 0

\* no function call is modelled
NoCall == [fn |-> "none"]

FnIdle == invoked = NoCall /\ result = 0

Init == DriverInit /\ PathIdle /\ FnIdle

Next ==
    \/ Setup /\ UNCHANGED <<pathVars, fnVars>>
    \/ CallCapped /\ UNCHANGED <<pathVars, fnVars>>
    \/ CallStart /\ UNCHANGED <<pathVars, fnVars>>
    \/ \E p \in Pixels : TaskPuv(p) /\ UNCHANGED <<pathVars, fnVars>>
    \/ \E p \in Pixels : TaskLens(p) /\ UNCHANGED <<pathVars, fnVars>>
    \/ \E p \in Pixels : TaskShadeFlat(p) /\ UNCHANGED <<pathVars, fnVars>>
    \/ \E p \in Pixels : TaskShadeDraw(p) /\ UNCHANGED <<pathVars, fnVars>>
    \/ \E p \in Pixels : TaskPanic(p) /\ UNCHANGED <<pathVars, fnVars>>
    \/ \E p \in Pixels : TaskLoad(p) /\ UNCHANGED <<pathVars, fnVars>>
    \/ \E p \in Pixels : TaskStore(p) /\ UNCHANGED <<pathVars, fnVars>>
    \/ Join /\ UNCHANGED <<pathVars, fnVars>>

Spec == Init /\ [][Next]_vars

\* ------------------------------------------------------------------------
\* Reference results used by the driver's properties
\* ------------------------------------------------------------------------
RECURSIVE SumSeq(_)
SumSeq(q) == IF q = <<>> THEN 0 ELSE Head(q) + SumSeq(Tail(q))

\* the shader call of one pixel run on its own from generator state s with
\* `acc` collected so far and n draws made: the sample and the final state
RECURSIVE ShadeRun(_, _, _)
ShadeRun(s, n, acc) ==
    LET r == Rand1Value(s) IN
    IF ShadeStops(r, n)
      THEN [rad |-> Clamp(acc + r, pclamp), rng |-> Rand1State(s)]
      ELSE ShadeRun(Rand1State(s), n + 1, acc + r)

\* the closure body of trace.rs:65-76 for one pixel run on its own from
\* generator state s0
PixelRun(s0) ==
    LET s1 == Rand2State(s0)
        a1 == 1 + Rand2Value(s0)
        s2 == Rand2State(s1)
        a2 == a1 + Rand2Value(s1)
    IN IF UsesRng(shader)
         THEN ShadeRun(s2, 0, a2)
         ELSE [rad |-> Clamp(a2, pclamp), rng |-> s2]

AllDone == dpc = "running" /\ \A p \in Pixels : tpc[p] = "done"

\* ------------------------------------------------------------------------
\* Properties of the render driver (specification Spec)
\* ------------------------------------------------------------------------

C2_BufferIsSumOfSamples ==
    /\ \A p \in Pixels : image[p] = SumSeq(hist[p])
    /\ dpc = "idle" => \A p \in Pixels : Len(hist[p]) = samples

\* C2 witness: two passes have been accumulated into the buffer.
C2_Witness ==
    dpc = "idle" /\ samples = 2 /\ \A p \in Pixels : image[p] > hist[p][2]

\* C3: within one pass the slot of pixel p holds its value from before the
\* pass until the task of p has stored, and that value plus the radiance of
\* the task of p afterwards, under every interleaving of the tasks' loads
\* and stores: only the task of p writes slot p, once, and nothing is lost.
C3_OneWriterPerSlot ==
    dpc \in {"running", "panicked"} =>
        \A p \in Pixels :
            image[p] = pre.image[p] + (IF tpc[p] = "done" THEN rad[p] ELSE 0)

\* C3 witness: every task has loaded its slot before any task has stored,
\* in a pass that started from a non-zero buffer.
C3_Witness ==
    /\ dpc = "running"
    /\ \A p \in Pixels : tpc[p] = "store" /\ tmp[p] > 0

\* C4: the sample each pixel contributes in a pass, and the state its
\* generator is left in, are those of the pixel's task run on its own from
\* the generator state the pass started with, whatever the order in which
\* the tasks were scheduled; a task that has not started has left its
\* generator untouched.
C4_ScheduleIndependent ==
    dpc = "running" =>
        \A p \in Pixels :
            /\ tpc[p] = "puv" => rngs[p] = pre.rngs[p]
            /\ tpc[p] \in {"load", "store", "done"} =>
                  /\ rad[p] = PixelRun(pre.rngs[p]).rad
                  /\ rngs[p] = PixelRun(pre.rngs[p]).rng
            /\ AllDone => image[p] = pre.image[p] + PixelRun(pre.rngs[p]).rad

\* C4 witness: a pass of a path-tracing shader has finished every task, the
\* pixels having started from different generator states.
C4_Witness ==
    /\ AllDone
    /\ UsesRng(shader)
    /\ \E p, q \in Pixels : pre.rngs[p] # pre.rngs[q]

\* C8 as claimed: a shader name other than color, normal, position,
\* eyelight, naive and raytrace ends setup in a configuration error, and no
\* sample is ever taken.
C8_UnknownShaderRejected ==
    argShader \notin KnownShaders =>
        /\ dpc \in {"setup", "config_error"}
        /\ samples = 0

\* ------------------------------------------------------------------------
\* Material points (scene.rs:415-482, utils.rs:397-410)
\* ------------------------------------------------------------------------
MaterialType == {"Matte", "Glossy", "Reflective", "Transparent", "Refractive",
                 "Volumetric", "Subsurface", "Gltfpbr"}

\* roughness of a material point is exactly 0 or at least MIN_ROUGHNESS
\* (scene.rs:21), the unit roughness is measured in here
MIN_ROUGHNESS == 1

\* the roughness values eval_material can produce for a family (the
\* `fix roughness` block of scene.rs:455-467)
RoughnessOf(t) ==
    IF t \in {"Matte", "Gltfpbr", "Glossy"} THEN {MIN_ROUGHNESS}
    ELSE IF t = "Volumetric" THEN {0}
    ELSE {0, MIN_ROUGHNESS}

MaterialPoints ==
    {m \in [m_type : MaterialType, roughness : {0, MIN_ROUGHNESS}] :
        m.roughness \in RoughnessOf(m.m_type)}

is_deltaOfMirrorsOnly(m) ==
    \/ (m.m_type = "Reflective" /\ m.roughness = 0)
    \/ m.m_type = "Volumetric"
is_delta(m) ==
    \/ (m.m_type = "Reflective" /\ m.roughness = 0)
    \/ (m.m_type = "Refractive" /\ m.roughness = 0)
    \/ (m.m_type = "Transparent" /\ m.roughness = 0)
    \/ m.m_type = "Volumetric"

is_volumetric(m) == m.m_type \in {"Refractive", "Volumetric", "Subsurface"}

\* ------------------------------------------------------------------------
\* Throughput arithmetic on one channel, in hundredths
\* ------------------------------------------------------------------------
NonFinite == -1     \* an infinite or NaN f32

\* values of eval/pdf quotients: 0, 0.1, 1 and a non-finite quotient (0/0)
Factors == {0, 10, 100, NonFinite}

Mul(w, f) ==
    IF w = NonFinite \/ f = NonFinite THEN NonFinite ELSE (w * f) \div 100

\* radiance += weight * emission
AddRadianceUnweighted(r, w, e) == IF r = NonFinite THEN NonFinite ELSE r + e
AddRadiance(r, w, e) ==
    IF r = NonFinite \/ w = NonFinite THEN NonFinite ELSE r + (w * e) \div 100

\* is_null(&weight, epsilon()) || !is_finite(&weight)
BadWeight(w) == w = 0 \/ w = NonFinite

\* min2_scalar(weight.max(), 0.99)
RrProb(w) == IF w < 99 THEN w ELSE 99

\* ------------------------------------------------------------------------
\* Directions, by the sign of dot(normal,outgoing) * dot(normal,incoming)
\* ------------------------------------------------------------------------
\* outcomes [null, crossing] of the sampler the integrator calls for a
\* material point: null = is_null(incoming), crossing = the product is < 0
DirOutcomesThroughVolumetric(m, strategy) ==
    IF strategy = "delta" /\ m.m_type = "Volumetric"
      THEN [null : {FALSE}, crossing : BOOLEAN]
      ELSE [null : BOOLEAN, crossing : {FALSE}]
DirOutcomes(m, strategy) ==
    IF strategy = "lights"
      \* sample_lights (scene.rs:601-638): a unit vector toward a light
      THEN [null : {FALSE}, crossing : BOOLEAN]
    ELSE IF strategy = "delta"
      \* sample_delta (shading.rs:95-105)
      THEN CASE m.m_type = "Reflective" -> {[null |-> FALSE, crossing |-> FALSE]}
             [] m.m_type = "Transparent" -> [null : {FALSE}, crossing : BOOLEAN]
             [] m.m_type = "Refractive" ->
                    {[null |-> FALSE, crossing |-> FALSE],
                     [null |-> FALSE, crossing |-> TRUE],
                     [null |-> TRUE, crossing |-> FALSE]}
             [] OTHER -> {[null |-> TRUE, crossing |-> FALSE]}
    \* sample_bsdfcos (shading.rs:50-61)
    ELSE CASE m.m_type = "Matte" -> {[null |-> FALSE, crossing |-> FALSE]}
           [] m.m_type = "Transparent" ->
                    {[null |-> FALSE, crossing |-> FALSE],
                     [null |-> FALSE, crossing |-> TRUE],
                     [null |-> TRUE, crossing |-> FALSE]}
           [] m.m_type = "Volumetric" -> {[null |-> TRUE, crossing |-> FALSE]}
           [] OTHER -> {[null |-> FALSE, crossing |-> FALSE],
                        [null |-> TRUE, crossing |-> FALSE]}

\* values of eval/pdf for the sampled direction: eval_bsdfcos is zero for a
\* point of roughness 0 (shading.rs:63-66)
DirFactors(m, strategy) ==
    IF strategy # "delta" /\ m.roughness = 0 THEN {0, NonFinite} ELSE Factors

\* ------------------------------------------------------------------------
\* Path integrators: shade_naive (trace.rs:157-234) and shade_raytrace
\* (trace.rs:236-364).  One iteration of the `while` loop runs through the
\* positions "loop" (intersection query), "surface" or "medium" (shading
\* point), "sample" (next direction) and "check" (weight check, roulette,
\* bounce += 1); the other positions are the ways the call ends.  The scene
\* supplies what the queries and samplers return.
\* ------------------------------------------------------------------------
Integrators == {"naive", "raytrace"}

Terminal == {"returned", "escaped", "absorbed", "extinguished", "roulette",
             "panic"}

\* transmittance / pdf of the free-flight sample (trace.rs:258-261; the
\* MaterialPoint methods themselves are not among the sources)
TransmittanceFactors == Factors

\* emission met at a shading point
Emissions == IF radiance # NonFinite /\ radiance < MaxRadiance
               THEN {0, 100} ELSE {0}

\* the driver's variables while one shader call is modelled
DriverIdle ==
    /\ dpc = "shading"
    /\ argShader = "raytrace"
    /\ shader = "shade_raytrace"
    /\ psamples = 1
    /\ pclamp = 0
    /\ samples = 0
    /\ image = Zeros
    /\ rngs = Zeros
    /\ calls = 0
    /\ tpc = TaskIdle
    /\ rad = Zeros
    /\ tmp = Zeros
    /\ ndraw = Zeros
    /\ pre = [samples |-> 0, image |-> Zeros, rngs |-> Zeros]
    /\ hist = [p \in Pixels |-> <<>>]

\* values of --bounces
BouncesArgs == {-1, 0, 1, MaxBounces}

\* trace.rs:164-167 and 243-247; the camera may sit inside a medium
PathInit ==
    /\ DriverIdle
    /\ FnIdle
    /\ nlights \in {0, 1}
    /\ ppc = "loop"
    /\ integrator \in Integrators
    /\ bounces \in BouncesArgs
    /\ bounce = 0
    /\ weight = 100
    /\ radiance = 0
    /\ volume_stack = <<>>
    /\ hit_alpha = 0
    /\ material = NoMaterial
    /\ sampler = "none"
    /\ inside \in {0, 1}
    /\ events = 0
    /\ skips = 0

InMediumWithoutStack == integrator = "raytrace"
InMedium == integrator = "raytrace" /\ volume_stack # <<>>

\* `bounce == 0` of trace.rs:187 and 279
FirstHitTest(b) == b = 0

\* the sampling strategies open at a surface point (trace.rs:196-212,
\* 288-309)
StrategiesWithLights(m) ==
    IF is_delta(m) THEN {"delta"} ELSE {"bsdf", "lights"}
Strategies(m) ==
    IF is_delta(m) THEN {"delta"}
    ELSE IF integrator = "naive" THEN {"bsdf"}
    ELSE {"bsdf", "lights"}

\* trace.rs:311-317
StackAfterPushOnly(m, d) ==
    IF integrator = "raytrace" /\ is_volumetric(m) /\ d.crossing
      THEN Append(volume_stack, m)
      ELSE volume_stack
StackAfter(m, d) ==
    IF integrator = "raytrace" /\ is_volumetric(m) /\ d.crossing
      THEN IF volume_stack = <<>>
             THEN Append(volume_stack, m)
             ELSE SubSeq(volume_stack, 1, Len(volume_stack) - 1)
      ELSE volume_stack

\* the media really around the next ray origin
InsideAfter(m, d, entering) ==
    IF is_volumetric(m) /\ d.crossing
      THEN IF entering THEN inside + 1 ELSE inside - 1
      ELSE inside

\* the loop condition fails: return (radiance, hit_alpha)
Return ==
    /\ ppc = "loop"
    /\ bounce >= bounces
    /\ ppc' = "returned"
    /\ UNCHANGED <<integrator, bounces, bounce, weight, radiance, volume_stack,
                   hit_alpha, material, sampler, inside, events, skips>>

\* the intersection query misses (trace.rs:169-173, 249-253)
Miss(env) ==
    /\ ppc = "loop"
    /\ bounce < bounces
    /\ radiance' = AddRadiance(radiance, weight, env)
    /\ ppc' = "escaped"
    /\ UNCHANGED <<integrator, bounces, bounce, weight, volume_stack,
                   hit_alpha, material, sampler, inside, events, skips>>

\* the intersection query hits; inside a medium shade_raytrace samples a
\* free-flight distance and updates the weight (trace.rs:255-265):
\* inv is `distance < intersection.distance`
Hit(tf, inv) ==
    /\ ppc = "loop"
    /\ bounce < bounces
    /\ IF InMedium
         THEN /\ tf \in TransmittanceFactors
              /\ weight' = Mul(weight, tf)
         ELSE /\ tf = 100
              /\ ~inv
              /\ weight' = weight
    /\ ppc' = IF inv THEN "medium" ELSE "surface"
    /\ UNCHANGED <<integrator, bounces, bounce, radiance, volume_stack,
                   hit_alpha, material, sampler, inside, events, skips>>

\* `handle opacity`: the hit is skipped (trace.rs:181-186, 273-278)
OpacitySkip ==
    /\ ppc = "surface"
    /\ skips < MaxSkips
    /\ bounce' = bounce - 1
    /\ skips' = skips + 1
    /\ ppc' = "loop"
    /\ UNCHANGED <<integrator, bounces, weight, radiance, volume_stack,
                   hit_alpha, material, sampler, inside, events>>

\* the hit is not skipped: hit_alpha and emission (trace.rs:187-192,
\* 279-284)
SurfacePoint(m, e) ==
    /\ ppc = "surface"
    /\ material' = m
    /\ hit_alpha' = IF FirstHitTest(bounce) THEN 1 ELSE hit_alpha
    /\ radiance' = AddRadiance(radiance, weight, e)
    /\ events' = events + 1
    /\ ppc' = "sample"
    /\ UNCHANGED <<integrator, bounces, bounce, weight, volume_stack,
                   sampler, inside, skips>>

\* `next direction` at a surface point, the weight update and the volume
\* stack update (trace.rs:194-212, 286-321)
SampleDirection(strategy, d, fac, entering) ==
    /\ ppc = "sample"
    /\ strategy \in Strategies(material)
    /\ strategy = "lights" => nlights > 0
    /\ d \in DirOutcomes(material, strategy)
    /\ fac \in DirFactors(material, strategy)
    /\ IF is_volumetric(material) /\ d.crossing
         THEN (entering => inside < MaxNest) /\ (~entering => inside > 0)
         ELSE ~entering
    /\ sampler' = strategy
    /\ IF d.null
         THEN /\ ppc' = "absorbed"
              /\ UNCHANGED <<weight, volume_stack, inside, material>>
         ELSE /\ weight' = Mul(weight, fac)
              /\ volume_stack' = StackAfter(material, d)
              /\ inside' = InsideAfter(material, d, entering)
              /\ material' = NoMaterial
              /\ ppc' = "check"
    /\ UNCHANGED <<integrator, bounces, bounce, radiance, hit_alpha, events,
                   skips>>

\* shade_raytrace picks light sampling while scene.lights is empty
\* (trace.rs:292): sample_uniform(0, rl) evaluates size - 1 on a usize and
\* sample_lights indexes lights[light_id] (scene.rs:602-603)
SampleLightsPanic ==
    /\ ppc = "sample"
    /\ "lights" \in Strategies(material)
    /\ nlights = 0
    /\ sampler' = "lights"
    /\ ppc' = "panic"
    /\ UNCHANGED <<integrator, bounces, bounce, weight, radiance,
                   volume_stack, hit_alpha, material, inside, events, skips>>

\* a scattering event inside the medium on top of the stack: emission,
\* direction and weight update (trace.rs:322-347)
MediumEvent(e, strategy, null, fac) ==
    /\ ppc = "medium"
    /\ strategy \in {"phase", "lights"}
    /\ strategy = "lights" => nlights > 0 /\ ~null
    /\ radiance' = AddRadiance(radiance, weight, e)
    /\ events' = events + 1
    /\ sampler' = strategy
    /\ IF null
         THEN /\ ppc' = "absorbed"
              /\ weight' = weight
         ELSE /\ weight' = Mul(weight, fac)
              /\ ppc' = "check"
    /\ UNCHANGED <<integrator, bounces, bounce, volume_stack, hit_alpha,
                   material, inside, skips>>

\* the same with scene.lights empty (trace.rs:332)
MediumLightsPanic(e) ==
    /\ ppc = "medium"
    /\ nlights = 0
    /\ radiance' = AddRadiance(radiance, weight, e)
    /\ events' = events + 1
    /\ sampler' = "lights"
    /\ ppc' = "panic"
    /\ UNCHANGED <<integrator, bounces, bounce, weight, volume_stack,
                   hit_alpha, material, inside, skips>>

\* `check weight` breaks (trace.rs:214-217, 348-351)
Extinguish ==
    /\ ppc = "check"
    /\ BadWeight(weight)
    /\ ppc' = "extinguished"
    /\ UNCHANGED <<integrator, bounces, bounce, weight, radiance,
                   volume_stack, hit_alpha, material, sampler, inside, events,
                   skips>>

\* `if bounce > 3` of trace.rs:220 and 354
RouletteAppliesFromThree(b) == b >= 3
RouletteApplies(b) == b > 3

\* values of the rand1(rng) drawn by the roulette, in hundredths
RrDraws == {0, 50, 99}

\* russian roulette breaks: rand1(rng) >= rr_prob (trace.rs:219-224,
\* 353-358)
RouletteKill(r) ==
    /\ ppc = "check"
    /\ ~BadWeight(weight)
    /\ RouletteApplies(bounce)
    /\ r >= RrProb(weight)
    /\ ppc' = "roulette"
    /\ UNCHANGED <<integrator, bounces, bounce, weight, radiance,
                   volume_stack, hit_alpha, material, sampler, inside, events,
                   skips>>

\* the iteration reaches its end: roulette survived if it applies, then
\* bounce += 1 (trace.rs:225-231, 359-361)
Advance(r) ==
    /\ ppc = "check"
    /\ ~BadWeight(weight)
    /\ IF RouletteApplies(bounce)
         THEN /\ r < RrProb(weight)
              /\ weight' = (weight * 100) \div RrProb(weight)
         ELSE /\ r = 0
              /\ weight' = weight
    /\ bounce' = bounce + 1
    /\ sampler' = "none"
    /\ ppc' = "loop"
    /\ UNCHANGED <<integrator, bounces, radiance, volume_stack, hit_alpha,
                   material, inside, events, skips>>

AllDirs == [null : BOOLEAN, crossing : BOOLEAN]

PathNext ==
    \/ Return /\ UNCHANGED <<drvVars, nlights, fnVars>>
    \/ \E env \in Emissions : Miss(env) /\ UNCHANGED <<drvVars, nlights, fnVars>>
    \/ \E tf \in Factors, inv \in BOOLEAN :
            Hit(tf, inv) /\ UNCHANGED <<drvVars, nlights, fnVars>>
    \/ OpacitySkip /\ UNCHANGED <<drvVars, nlights, fnVars>>
    \/ \E m \in MaterialPoints, e \in Emissions :
            SurfacePoint(m, e) /\ UNCHANGED <<drvVars, nlights, fnVars>>
    \/ \E strategy \in {"bsdf", "lights", "delta"}, d \in AllDirs,
          fac \in Factors, entering \in BOOLEAN :
            SampleDirection(strategy, d, fac, entering)
              /\ UNCHANGED <<drvVars, nlights, fnVars>>
    \/ SampleLightsPanic /\ UNCHANGED <<drvVars, nlights, fnVars>>
    \/ \E e \in Emissions, strategy \in {"phase", "lights"}, null \in BOOLEAN,
          fac \in Factors :
            MediumEvent(e, strategy, null, fac)
              /\ UNCHANGED <<drvVars, nlights, fnVars>>
    \/ \E e \in Emissions : MediumLightsPanic(e) /\ UNCHANGED <<drvVars, nlights, fnVars>>
    \/ Extinguish /\ UNCHANGED <<drvVars, nlights, fnVars>>
    \/ \E r \in RrDraws : RouletteKill(r) /\ UNCHANGED <<drvVars, nlights, fnVars>>
    \/ \E r \in RrDraws : Advance(r) /\ UNCHANGED <<drvVars, nlights, fnVars>>

PathSpec == PathInit /\ [][PathNext]_vars

\* the shader call is sequential code: it takes its next step as long as it
\* has one
PathFairSpec == PathSpec /\ WF_vars(PathNext)

\* ------------------------------------------------------------------------
\* Properties of the path integrators (specification PathSpec)
\* ------------------------------------------------------------------------

\* C5 as claimed: an opacity skip leaves the bounce counter unchanged, so
\* the number of non-skipped events processed along a path never exceeds
\* params.bounces, however many skips occur.
C5_SkipKeepsBounceBudget ==
    [][ /\ (skips' = skips + 1 => bounce' = bounce)
        /\ events' <= (IF bounces > 0 THEN bounces ELSE 0)
      ]_vars

\* C6 as claimed: hit_alpha is 1 exactly when at least one non-skipped
\* surface hit has occurred on the path, also when opacity skips preceded
\* the first such hit (the first non-skipped event of a path is always a
\* surface hit, the volume stack being empty until a surface is crossed).
C6_AlphaIffRealHit ==
    (hit_alpha = 1) <=> (events > 0)

\* C7 as claimed: shade_raytrace never calls sample_lights while the light
\* list is empty, and with zero lights the call never reaches an error
\* state.
C7_NoLightSamplingWithoutLights ==
    integrator = "raytrace" =>
        /\ (sampler = "lights" => nlights > 0)
        /\ ppc # "panic"

\* C9 as claimed: in shade_raytrace no loop iteration starts with a null or
\* non-finite weight, also after the transmittance update that precedes an
\* opacity skip inside a medium.
C9_NoIterationWithBadWeight ==
    (integrator = "raytrace" /\ ppc = "loop" /\ bounce < bounces) =>
        ~BadWeight(weight)

\* C10 as claimed: in shade_raytrace a direction that crosses the boundary
\* of a Refractive, Volumetric or Subsurface material pushes the material
\* point when the path enters the medium and pops the top entry when it
\* leaves it, also when the path is inside another medium or started inside
\* one.
C10_PushOnEnterPopOnExit ==
    [][ integrator = "raytrace" =>
          /\ (inside' = inside + 1 =>
                volume_stack' = Append(volume_stack, material))
          /\ (inside' = inside - 1 =>
                /\ volume_stack # <<>>
                /\ volume_stack' =
                      SubSeq(volume_stack, 1, Len(volume_stack) - 1))
      ]_vars

\* C11: russian roulette acts only in iterations where bounce > 3; its
\* survival probability is min(max component of weight, 0.99); a path that
\* survives has its weight divided by that probability and goes on to the
\* next iteration, a path that fails ends with radiance and weight as they
\* were; at bounce <= 3 the weight passes the end of the iteration
\* unchanged.
C11_RouletteOnlyAfterThree ==
    [][ /\ (ppc' = "roulette" =>
              bounce > 3 /\ radiance' = radiance /\ weight' = weight)
        /\ (ppc = "check" /\ ppc' = "loop" =>
              /\ bounce' = bounce + 1
              /\ radiance' = radiance
              /\ weight' = IF bounce > 3
                             THEN (weight * 100) \div
                                    (IF weight < 99 THEN weight ELSE 99)
                             ELSE weight)
      ]_vars

\* C11 witness: a path of full weight survived the roulette of the
\* iteration with bounce = 4 and carries the compensated weight 1/0.99.
C11_Witness ==
    ppc = "loop" /\ bounce = 5 /\ weight = 101

\* C12: a miss of the intersection query adds weight * environment emission
\* to radiance and ends the path in that iteration: weight, bounce and
\* hit_alpha stay as they were and no step of the integrator follows; a
\* path that escapes before any non-skipped hit has alpha 0.
C12_MissEndsPath ==
    [][ /\ (ppc' = "escaped" =>
              /\ ppc = "loop"
              /\ \E env \in {0, 100} :
                    radiance' = IF radiance = NonFinite \/ weight = NonFinite
                                  THEN NonFinite
                                  ELSE radiance + (weight * env) \div 100
              /\ UNCHANGED <<weight, bounce, hit_alpha, volume_stack, events>>
              /\ (events = 0 => hit_alpha' = 0))
        /\ (ppc = "escaped" => ppc' = "escaped")
      ]_vars

\* C12 witness: a path escaped after a bounce that had reduced its weight
\* to 0.1, under an environment of emission 1.
C12_Witness ==
    ppc = "escaped" /\ weight = 10 /\ radiance = 10 /\ events > 0

\* C13 as claimed: every material point of roughness 0 that eval_material
\* can produce is classified as delta by is_delta, and the integrators take
\* its next direction from sample_delta.
C13_RoughnessZeroIsDelta ==
    [][ (ppc = "sample" /\ material.roughness = 0) =>
            (is_delta(material) /\ sampler' = "delta")
      ]_vars

\* ------------------------------------------------------------------------
\* Vectors and f32 arithmetic of the shading functions.  Directions are the
\* twelve integer vectors of length 5 in a plane through the normal, so that
\* every dot product is exact (in 25ths); results are kept up to positive
\* constant factors (1/PI, the colour), so that a result is 0, positive or
\* non-finite exactly when the f32 result is.
\* ------------------------------------------------------------------------
Dirs == {v \in (-5 .. 5) \X (-5 .. 5) : v[1] * v[1] + v[2] * v[2] = 25}

ZeroVec == <<0, 0>>

dot(a, b) == a[1] * b[1] + a[2] * b[2]

Neg(a) == <<-a[1], -a[2]>>

VecAdd(a, b) == <<a[1] + b[1], a[2] + b[2]>>

Abs(x) == IF x < 0 THEN -x ELSE x

\* normalize keeps the direction; normalize of the zero vector is a vector
\* of NaNs, which ZeroVec stands for
normalize(v) == v

\* a * b and a + b on f32, NaN and infinities absorbing
Times(a, b) == IF a = NonFinite \/ b = NonFinite THEN NonFinite ELSE a * b

Plus(a, b) == IF a = NonFinite \/ b = NonFinite THEN NonFinite ELSE a + b

\* a / b on non-negative f32: x/0 is infinite or NaN, a non-zero quotient
\* stays non-zero
Quot(a, b) ==
    IF a = NonFinite \/ b = NonFinite \/ b = 0 THEN NonFinite
    ELSE IF a = 0 THEN 0
    ELSE (a \div b) + 1

\* `if dot(normal, outgoing) <= 0.0 { -normal } else { *normal }`
UpNormal(normal, outgoing) ==
    IF dot(normal, outgoing) <= 0 THEN Neg(normal) ELSE normal

\* indices of refraction, in hundredths: 1.0 and 1.5
Iors == {100, 150}

\* material points handed to the shading functions
ShadingPoints ==
    {m \in [m_type : MaterialType, roughness : {0, MIN_ROUGHNESS}, ior : Iors] :
        m.roughness \in RoughnessOf(m.m_type)}

\* shading.rs:659-666
sample_hemisphere_cos_pdf(normal, incoming) ==
    IF dot(normal, incoming) <= 0 THEN 0 ELSE dot(normal, incoming)

\* shading.rs:676-697 in hundredths: 1 under total internal reflection
\* (cos2t < 0) and at grazing incidence (cosw = 0; 0/0 there for eta = 1),
\* 0 for eta = 1, a value in between otherwise
fresnel_dielectric(eta, normal, outgoing) ==
    IF normal = ZeroVec THEN NonFinite
    ELSE IF (625 - dot(normal, outgoing) * dot(normal, outgoing)) * 10000
              > eta * eta * 625 THEN 100
    ELSE IF dot(normal, outgoing) = 0 THEN (IF eta = 100 THEN NonFinite ELSE 100)
    ELSE IF eta = 100 THEN 0
    ELSE 4

\* shading.rs:668-674 for the reflectivity lerp(eta_to_reflectivity(ior),
\* color, metallic) of a non-metallic point: null for ior = 1
fresnel_schlick(ior, normal, outgoing) ==
    IF ior = 100 THEN 0
    ELSE IF normal = ZeroVec THEN NonFinite
    ELSE 4

\* shading.rs:699-724
fresnel_conductor(normal, outgoing) ==
    IF dot(normal, outgoing) <= 0 THEN 0 ELSE 50

\* shading.rs:767-782; every comparison with a NaN cosine is false
microfacet_distribution(roughness, normal, halfway) ==
    IF halfway = ZeroVec THEN NonFinite
    ELSE IF dot(normal, halfway) <= 0 THEN 0
    ELSE roughness * 100

\* shading.rs:737-765
microfacet_shadowing1(roughness, normal, halfway, direction) ==
    IF halfway = ZeroVec THEN NonFinite
    ELSE IF dot(normal, direction) * dot(halfway, direction) <= 0 THEN 0
    ELSE 1

\* shading.rs:726-735
microfacet_shadowing(roughness, normal, halfway, outgoing, incoming) ==
    Times(microfacet_shadowing1(roughness, normal, halfway, outgoing),
          microfacet_shadowing1(roughness, normal, halfway, incoming))

\* shading.rs:804-811
sample_microfacet_pdf(roughness, normal, halfway) ==
    IF halfway = ZeroVec THEN NonFinite
    ELSE IF dot(normal, halfway) < 0 THEN 0
    ELSE Times(microfacet_distribution(roughness, normal, halfway),
               dot(normal, halfway))

\* dot(normal, incoming) * dot(normal, outgoing) <= 0.0
OppositeSidesStrict(normal, outgoing, incoming) ==
    dot(normal, incoming) * dot(normal, outgoing) < 0
OppositeSides(normal, outgoing, incoming) ==
    dot(normal, incoming) * dot(normal, outgoing) <= 0

\* f * d * g / (4 * dot(up, outgoing) * dot(up, incoming)) * |dot(up, incoming)|
SpecularLobe(f, d, g, up, outgoing, incoming) ==
    Times(Quot(Times(Times(f, d), g),
               4 * dot(up, outgoing) * dot(up, incoming)),
          Abs(dot(up, incoming)))

\* shading.rs:146-151
eval_matte(m, normal, outgoing, incoming) ==
    IF OppositeSides(normal, outgoing, incoming) THEN 0
    ELSE Abs(dot(normal, incoming))

\* shading.rs:153-163
sample_matte_pdf(m, normal, outgoing, incoming) ==
    IF OppositeSides(normal, outgoing, incoming) THEN 0
    ELSE sample_hemisphere_cos_pdf(UpNormal(normal, outgoing), incoming)

\* shading.rs:184-201
eval_glossy(m, normal, outgoing, incoming) ==
    IF OppositeSides(normal, outgoing, incoming) THEN 0
    ELSE LET up == UpNormal(normal, outgoing)
             f1 == fresnel_dielectric(m.ior, up, outgoing)
             halfway == normalize(VecAdd(incoming, outgoing))
             f == fresnel_dielectric(m.ior, halfway, incoming)
             d == microfacet_distribution(m.roughness, up, halfway)
             g == microfacet_shadowing(m.roughness, up, halfway, outgoing,
                                       incoming)
         IN Plus(Times(100 - f1, Abs(dot(up, incoming))),
                 SpecularLobe(f, d, g, up, outgoing, incoming))

\* shading.rs:203-214: no test of the sides of the two directions
sample_glossy_pdf(m, normal, outgoing, incoming) ==
    LET up == UpNormal(normal, outgoing)
        halfway == normalize(VecAdd(outgoing, incoming))
        f == fresnel_dielectric(m.ior, up, outgoing)
    IN Plus(Quot(Times(f, sample_microfacet_pdf(m.roughness, up, halfway)),
                 4 * Abs(dot(outgoing, halfway))),
            Times(100 - f, sample_hemisphere_cos_pdf(up, incoming)))

\* shading.rs:240-260
eval_reflective(m, normal, outgoing, incoming) ==
    IF OppositeSides(normal, outgoing, incoming) THEN 0
    ELSE LET up == UpNormal(normal, outgoing)
             halfway == normalize(VecAdd(incoming, outgoing))
             f == fresnel_conductor(halfway, incoming)
             d == microfacet_distribution(m.roughness, up, halfway)
             g == microfacet_shadowing(m.roughness, up, halfway, outgoing,
                                       incoming)
         IN SpecularLobe(f, d, g, up, outgoing, incoming)

\* shading.rs:279-291
sample_reflective_pdf(m, normal, outgoing, incoming) ==
    IF OppositeSides(normal, outgoing, incoming) THEN 0
    ELSE LET up == UpNormal(normal, outgoing)
             halfway == normalize(VecAdd(outgoing, incoming))
         IN Quot(sample_microfacet_pdf(m.roughness, up, halfway),
                 4 * Abs(dot(outgoing, halfway)))

\* shading.rs:588-611
eval_gltfpbr(m, normal, outgoing, incoming) ==
    IF OppositeSides(normal, outgoing, incoming) THEN 0
    ELSE LET up == UpNormal(normal, outgoing)
             f1 == fresnel_schlick(m.ior, up, outgoing)
             halfway == normalize(VecAdd(incoming, outgoing))
             f == fresnel_schlick(m.ior, halfway, incoming)
             d == microfacet_distribution(m.roughness, up, halfway)
             g == microfacet_shadowing(m.roughness, up, halfway, outgoing,
                                       incoming)
         IN Plus(Times(100 - f1, Abs(dot(up, incoming))),
                 SpecularLobe(f, d, g, up, outgoing, incoming))

\* shading.rs:613-632
sample_gltfpbr_pdf(m, normal, outgoing, incoming) ==
    IF OppositeSides(normal, outgoing, incoming) THEN 0
    ELSE LET up == UpNormal(normal, outgoing)
             halfway == normalize(VecAdd(outgoing, incoming))
             f == fresnel_schlick(m.ior, up, outgoing)
         IN Plus(Quot(Times(f, sample_microfacet_pdf(m.roughness, up,
                                                      halfway)),
                      4 * Abs(dot(outgoing, halfway))),
                 Times(100 - f, sample_hemisphere_cos_pdf(up, incoming)))

\* the families without transmission, and Volumetric (the `_` arm)
ReflectiveFamilies == {"Matte", "Glossy", "Reflective", "Gltfpbr"}

\* shading.rs:63-77, the arms of the families drawn by FnSpec
eval_bsdfcos(m, normal, outgoing, incoming) ==
    IF m.roughness = 0 THEN 0
    ELSE CASE m.m_type = "Matte" -> eval_matte(m, normal, outgoing, incoming)
           [] m.m_type = "Glossy" ->
                eval_glossy(m, normal, outgoing, incoming)
           [] m.m_type = "Reflective" ->
                eval_reflective(m, normal, outgoing, incoming)
           [] m.m_type = "Gltfpbr" ->
                eval_gltfpbr(m, normal, outgoing, incoming)
           [] m.m_type = "Volumetric" -> 0

\* shading.rs:79-93, the arms of the families drawn by FnSpec
sample_bsdfcos_pdf(m, normal, outgoing, incoming) ==
    IF m.roughness = 0 THEN 0
    ELSE CASE m.m_type = "Matte" ->
                sample_matte_pdf(m, normal, outgoing, incoming)
           [] m.m_type = "Glossy" ->
                sample_glossy_pdf(m, normal, outgoing, incoming)
           [] m.m_type = "Reflective" ->
                sample_reflective_pdf(m, normal, outgoing, incoming)
           [] m.m_type = "Gltfpbr" ->
                sample_gltfpbr_pdf(m, normal, outgoing, incoming)
           [] m.m_type = "Volumetric" -> 0

\* ------------------------------------------------------------------------
\* Single function calls (specification FnSpec)
\* ------------------------------------------------------------------------
BsdfPoints ==
    {m \in ShadingPoints : m.m_type \in ReflectiveFamilies \cup {"Volumetric"}}

\* ------------------------------------------------------------------------
\* Delta lobes (shading.rs:95-135, 436-452, 492-514, 542-562).  Normals are
\* the four axis directions, so that a mirror direction is again one of the
\* twelve; a refracted direction is the nearest of the twelve on its side of
\* the surface.  Values are in hundredths.
\* ------------------------------------------------------------------------
AxisNormals == {n \in Dirs : n[1] = 0 \/ n[2] = 0}

\* values of rnl, in hundredths
Rnls == {0, 50, 99}

\* a < b on f32: false when b is NaN
Less(a, b) == b # NonFinite /\ a < b

\* 1.0 / x, in hundredths
Inverse(x) == 10000 \div x

\* glm::reflect_vec(i, n) = i - 2 dot(n, i) n
reflect_vec(i, n) ==
    <<i[1] - (2 * dot(n, i) * n[1]) \div 25,
      i[2] - (2 * dot(n, i) * n[2]) \div 25>>

Sign(x) == IF x < 0 THEN -1 ELSE IF x > 0 THEN 1 ELSE 0

\* glm::refract_vec(i, n, eta): the zero vector when
\* k = 1 - eta^2 (1 - dot(n, i)^2) is negative, else
\* eta i - (eta dot(n, i) + sqrt(k)) n, which points away from n, keeps the
\* sign of the tangential part of i and has eta times its sine (0.6 -> 0.4,
\* 0.8 -> 0.53, 1 -> 0.67 for eta = 1/1.5, 0.6 -> 0.9 for eta = 1.5)
refract_vec(i, n, eta) ==
    IF eta * eta * (625 - dot(n, i) * dot(n, i)) > 10000 * 625 THEN ZeroVec
    ELSE LET along == IF n[1] = 0 THEN 2 ELSE 1
             across == IF n[1] = 0 THEN 1 ELSE 2
             sine == IF i[across] = 0 \/ eta = 100 THEN Abs(i[across])
                     ELSE IF eta < 100 THEN 3 ELSE 4
             cosine == IF sine = 0 THEN 5 ELSE IF sine = 3 THEN 4
                       ELSE IF sine = 4 THEN 3 ELSE 0
         IN [k \in {1, 2} |-> IF k = along THEN -Sign(n[along]) * cosine
                              ELSE Sign(i[across]) * sine]

\* `f32::abs(self.ior - 1.0) < 1e-3`
ThinIor(ior) == Abs(ior - 100) * 10 < 1

\* `let entering = dot(normal, outgoing) >= 0.0;
\*  let rel_ior = if entering { self.ior } else { 1.0 / self.ior };`
RelIor(m, normal, outgoing) ==
    IF dot(normal, outgoing) >= 0 THEN m.ior ELSE Inverse(m.ior)

\* shading.rs:436-452
sample_refractive_delta(m, normal, outgoing, rnl) ==
    IF ThinIor(m.ior) THEN Neg(outgoing)
    ELSE LET up == UpNormal(normal, outgoing)
             rel_ior == RelIor(m, normal, outgoing)
         IN IF Less(rnl, fresnel_dielectric(rel_ior, up, outgoing))
              THEN reflect_vec(Neg(outgoing), up)
              ELSE refract_vec(Neg(outgoing), up, Inverse(rel_ior))

\* 1.0 - f
OneMinus(f) == IF f = NonFinite THEN NonFinite ELSE 100 - f

\* shading.rs:492-514
eval_refractive_delta(m, normal, outgoing, incoming) ==
    IF ThinIor(m.ior)
      THEN IF OppositeSides(normal, outgoing, incoming) THEN 100 ELSE 0
    ELSE LET up == UpNormal(normal, outgoing)
             rel_ior == RelIor(m, normal, outgoing)
             f == fresnel_dielectric(rel_ior, up, outgoing)
         IN IF dot(normal, incoming) * dot(normal, outgoing) >= 0 THEN f
            ELSE IF f = NonFinite THEN NonFinite
            ELSE ((100 - f) * 10000) \div (rel_ior * rel_ior)

\* shading.rs:542-562
sample_refractive_pdf_delta(m, normal, outgoing, incoming) ==
    IF ThinIor(m.ior)
      THEN IF OppositeSides(normal, outgoing, incoming) THEN 100 ELSE 0
    ELSE LET up == UpNormal(normal, outgoing)
             rel_ior == RelIor(m, normal, outgoing)
             f == fresnel_dielectric(rel_ior, up, outgoing)
         IN IF dot(normal, incoming) * dot(normal, outgoing) >= 0 THEN f
            ELSE OneMinus(f)

\* the points the delta dispatchers are called with here: Refractive points
\* and the families of the `_` arm
DeltaPoints ==
    {m \in ShadingPoints : m.m_type \notin {"Reflective", "Transparent"}}

\* shading.rs:95-105
sample_delta(m, normal, outgoing, rnl) ==
    IF m.roughness # 0 THEN ZeroVec
    ELSE CASE m.m_type = "Refractive" ->
                  sample_refractive_delta(m, normal, outgoing, rnl)
           [] m.m_type \in {"Matte", "Glossy", "Volumetric", "Subsurface",
                            "Gltfpbr"} -> ZeroVec

\* shading.rs:107-117
eval_delta(m, normal, outgoing, incoming) ==
    IF m.roughness # 0 THEN 0
    ELSE CASE m.m_type = "Refractive" ->
                  eval_refractive_delta(m, normal, outgoing, incoming)
           [] m.m_type \in {"Matte", "Glossy", "Volumetric", "Subsurface",
                            "Gltfpbr"} -> 0

\* shading.rs:119-135
sample_delta_pdf(m, normal, outgoing, incoming) ==
    IF m.roughness # 0 THEN 0
    ELSE CASE m.m_type = "Refractive" ->
                  sample_refractive_pdf_delta(m, normal, outgoing, incoming)
           [] m.m_type \in {"Matte", "Glossy", "Volumetric", "Subsurface",
                            "Gltfpbr"} -> 0

FnInit == DriverIdle /\ nlights = 0 /\ PathIdle /\ FnIdle

Call_eval_bsdfcos(m, normal, outgoing, incoming) ==
    /\ invoked = NoCall
    /\ invoked' = [fn |-> "eval_bsdfcos", material |-> m, normal |-> normal,
                   outgoing |-> outgoing, incoming |-> incoming]
    /\ result' = eval_bsdfcos(m, normal, outgoing, incoming)

Call_sample_bsdfcos_pdf(m, normal, outgoing, incoming) ==
    /\ invoked = NoCall
    /\ invoked' = [fn |-> "sample_bsdfcos_pdf", material |-> m,
                   normal |-> normal, outgoing |-> outgoing,
                   incoming |-> incoming]
    /\ result' = sample_bsdfcos_pdf(m, normal, outgoing, incoming)

\* ------------------------------------------------------------------------
\* Discrete distributions (shading.rs:823-836).  Weights and cumulative
\* values are integers in units of half the margin 0.00001 that
\* sample_discrete subtracts; random numbers are in hundredths.
\* ------------------------------------------------------------------------
Eps == 2

\* a panic of the called function
Panic == -2

ElemWeights ==
    UNION {[1 .. n -> 0 .. MaxWeight] : n \in 1 .. MaxElems}

\* the same loop without `elements_cdf[idx] += elements_cdf[idx - 1]`
BuildCdfNoSum(ws) == ws

\* the loop of init_lights: insert the weight of element idx, then add the
\* entry before it (scene.rs:538-551)
RECURSIVE BuildCdf(_)
BuildCdf(ws) ==
    IF ws = <<>> THEN <<>>
    ELSE LET front == BuildCdf(SubSeq(ws, 1, Len(ws) - 1))
             w == ws[Len(ws)]
         IN Append(front, IF front = <<>> THEN w ELSE w + front[Len(front)])

\* 256.0 in these units: above it half the spacing of f32 values exceeds
\* 0.00001 and `cdf.back().unwrap() - 0.00001` is cdf.back() itself
Absorb == 51200000

\* weights that are multiples of 300.0
LargeWeights ==
    UNION {[1 .. n -> {0, 60000000}] : n \in 1 .. MaxElems}

\* values of r: 0, 0.5, just below 1, and 1
RValues == {0, 50, 99, 100}

\* cdf.partition_point(|&n| n <= r)
PartitionPointLess(cdf, r) ==
    Cardinality({j \in 1 .. Len(cdf) : cdf[j] < r})
PartitionPoint(cdf, r) ==
    Cardinality({j \in 1 .. Len(cdf) : cdf[j] <= r})

\* shading.rs:824-828; indices are counted from 0 as in the source.
\* cdf.back().unwrap() panics on an empty cdf, f32::clamp panics when its
\* upper end is below its lower end.  rt is r * total rounded down to a
\* whole unit, which selects the same entries of an integer cdf
sample_discrete(cdf, r) ==
    IF cdf = <<>> THEN Panic
    ELSE LET total == cdf[Len(cdf)]
             hi == IF total > Absorb THEN total ELSE total - Eps
         IN
         IF hi < 0 THEN Panic
         ELSE LET rt == r * (total \div 100) + (r * (total % 100)) \div 100
                  rs == IF rt > hi THEN hi ELSE rt
                  idx == PartitionPoint(cdf, rs)
              IN IF idx > Len(cdf) - 1 THEN Len(cdf) - 1 ELSE idx

\* shading.rs:830-836
sample_discrete_pdf(cdf, idx) ==
    IF idx = 0 THEN cdf[1] ELSE cdf[idx + 1] - cdf[idx]

Call_sample_discrete(ws, r) ==
    /\ invoked = NoCall
    /\ invoked' = [fn |-> "sample_discrete", weights |-> ws,
                   cdf |-> BuildCdf(ws), r |-> r]
    /\ result' = sample_discrete(BuildCdf(ws), r)

Call_sample_discrete_pdf(ws, idx) ==
    /\ invoked = NoCall
    /\ idx < Len(ws)
    /\ invoked' = [fn |-> "sample_discrete_pdf", weights |-> ws,
                   cdf |-> BuildCdf(ws), idx |-> idx]
    /\ result' = sample_discrete_pdf(BuildCdf(ws), idx)

\* ------------------------------------------------------------------------
\* Light setup (scene.rs:520-599).  A scene is its instances, each with
\* the emission of its material and the element arrays of its shape (the
\* area of each triangle and quad), and its environments, each with its
\* emission and the weights value.max() * sin(th) of the texels of its
\* emission texture.
\* ------------------------------------------------------------------------
INVALID == -3

\* up to two quads of area 0 or MaxWeight
QuadAreas ==
    {<<>>} \cup UNION {[1 .. n -> {0, MaxWeight}] : n \in 1 .. 2}

Instances ==
    [emission : {0, 1}, has_lines : BOOLEAN,
     triangles : {<<>>} \cup ElemWeights, quads : QuadAreas]

\* texels: the weights of the texture emission_tex refers to
Environments ==
    {[emission |-> e, emission_tex |-> INVALID, texels |-> <<>>] : e \in {0, 1}}
    \cup [emission : {0, 1}, emission_tex : {0}, texels : ElemWeights]

\* scenes with one instance, with one environment, or with one of each when
\* their element arrays have at most one entry
Scenes ==
    {[instances |-> <<i>>, environments |-> <<>>] : i \in Instances}
    \cup {[instances |-> <<>>, environments |-> <<e>>] : e \in Environments}
    \cup {[instances |-> <<i>>, environments |-> <<e>>] :
            i \in {x \in Instances : Len(x.triangles) <= 1 /\ Len(x.quads) <= 1},
            e \in {x \in Environments : Len(x.texels) <= 1}}

\* scene.rs:521-572, the light of one instance; handles count from 0
InstanceLights(instances, handle) ==
    LET instance == instances[handle + 1] IN
    IF instance.emission = 0 THEN <<>>
    ELSE IF instance.triangles = <<>> /\ instance.quads = <<>> THEN <<>>
    ELSE <<[instance |-> handle, environment |-> INVALID,
            elements_cdf |->
                IF instance.triangles # <<>> THEN BuildCdf(instance.triangles)
                ELSE IF instance.quads # <<>> THEN BuildCdf(instance.quads)
                ELSE <<>>]>>

\* scene.rs:574-598, the light of one environment
EnvironmentLights(environments, handle) ==
    LET environment == environments[handle + 1] IN
    IF environment.emission = 0 THEN <<>>
    ELSE <<[instance |-> INVALID, environment |-> handle,
            elements_cdf |->
                IF environment.emission_tex # INVALID
                THEN BuildCdf(environment.texels)
                ELSE <<>>]>>

RECURSIVE InstanceLightsFrom(_, _)
InstanceLightsFrom(instances, handle) ==
    IF handle >= Len(instances) THEN <<>>
    ELSE InstanceLights(instances, handle)
             \o InstanceLightsFrom(instances, handle + 1)

RECURSIVE EnvironmentLightsFrom(_, _)
EnvironmentLightsFrom(environments, handle) ==
    IF handle >= Len(environments) THEN <<>>
    ELSE EnvironmentLights(environments, handle)
             \o EnvironmentLightsFrom(environments, handle + 1)

\* scene.rs:520-599: self.lights after the call
init_lights(scene) ==
    InstanceLightsFrom(scene.instances, 0)
        \o EnvironmentLightsFrom(scene.environments, 0)

Call_init_lights(scene) ==
    /\ invoked = NoCall
    /\ invoked' = [fn |-> "init_lights", scene |-> scene]
    /\ result' = init_lights(scene)

\* ------------------------------------------------------------------------
\* Render state setup (utils.rs:123-152).  camera.aspect is the fraction
\* aspect[1] / aspect[2].
\* ------------------------------------------------------------------------
Aspects == {<<1, 1>>, <<4, 3>>, <<3, 2>>, <<2, 1>>, <<2, 3>>, <<1, 2>>}

Resolutions == 0 .. MaxResolution

\* the same cast without .round()
Truncate(num, den) == num \div den

\* (num / den).round() as usize, for a non-negative fraction: a half is
\* rounded up
Round(num, den) == (2 * num + den) \div (2 * den)

\* utils.rs:124-151; rngs are the seeds SmallRng::from_entropy() gave, here
\* seeds that repeat with period NumPixels
from_scene(resolution, aspect, seeds) ==
    LET width == IF aspect[1] >= aspect[2] THEN resolution
                 ELSE Round(resolution * aspect[1], aspect[2])
        height == IF aspect[1] >= aspect[2]
                  THEN Round(resolution * aspect[2], aspect[1])
                  ELSE resolution
    IN [width |-> width, height |-> height, samples |-> 0,
        image |-> [k \in 1 .. width * height |-> 0],
        rngs |-> [k \in 1 .. width * height |-> seeds[(k - 1) % NumPixels]]]

\* ------------------------------------------------------------------------
\* Sampling the rough dielectric lobes (shading.rs:50-62, 300-323, 410-434)
\* ------------------------------------------------------------------------
\* glm::reflect_vec(i, n) = i - 2 dot(n, i) n about a halfway vector that
\* is not an axis, kept exact by returning 25 times the f32 result
reflect_scaled(i, n) ==
    <<25 * i[1] - 2 * dot(n, i) * n[1], 25 * i[2] - 2 * dot(n, i) * n[2]>>

\* glm::refract_vec(i, n, eta) about such a halfway vector, 12500 times the
\* f32 result: zero when k = 1 - eta^2 (1 - dot(n, i)^2) is negative, else
\* eta i - (eta dot(n, i) + sqrt(k)) n with the square root rounded down
refract_scaled(i, n, eta) ==
    LET k == 6250000 - eta * eta * (625 - dot(n, i) * dot(n, i))
        root == CHOOSE r \in 0 .. 2500 : r * r <= k /\ k < (r + 1) * (r + 1)
    IN IF k < 0 THEN ZeroVec
       ELSE <<25 * eta * i[1] - (eta * dot(n, i) + root) * n[1],
              25 * eta * i[2] - (eta * dot(n, i) + root) * n[2]>>

\* shading.rs:300-323; halfway is what sample_microfacet returned for rn
sample_transparent(m, normal, outgoing, rnl, halfway) ==
    LET up_normal == UpNormal(normal, outgoing)
        reflected == reflect_scaled(Neg(outgoing), halfway)
    IN IF Less(rnl, fresnel_dielectric(m.ior, halfway, outgoing))
       THEN IF ~(dot(up_normal, outgoing) * dot(up_normal, reflected) >= 0)
            THEN ZeroVec ELSE reflected
       ELSE LET incoming == Neg(reflect_scaled(Neg(reflected), up_normal))
            IN IF dot(up_normal, outgoing) * dot(up_normal, incoming) >= 0
               THEN ZeroVec ELSE incoming

\* shading.rs:410-434: both branches keep the sampled direction when
\* same_hemisphere(up_normal, outgoing, incoming) holds
sample_refractive(m, normal, outgoing, rnl, halfway) ==
    LET up_normal == UpNormal(normal, outgoing)
        rel_ior == RelIor(m, normal, outgoing)
        incoming == IF Less(rnl, fresnel_dielectric(rel_ior, halfway, outgoing))
                    THEN reflect_scaled(Neg(outgoing), halfway)
                    ELSE refract_scaled(Neg(outgoing), halfway, rel_ior)
    IN IF ~(dot(up_normal, outgoing) * dot(up_normal, incoming) >= 0)
       THEN ZeroVec ELSE incoming

\* shading.rs:50-62, the families whose lobe is a rough dielectric
sample_bsdfcos(m, normal, outgoing, rnl, halfway) ==
    CASE m.m_type = "Transparent" ->
            sample_transparent(m, normal, outgoing, rnl, halfway)
      [] m.m_type \in {"Refractive", "Subsurface"} ->
            sample_refractive(m, normal, outgoing, rnl, halfway)

\* ------------------------------------------------------------------------
\* eval_texture (scene.rs:360-413)
\* ------------------------------------------------------------------------
\* scene.rs:360-413 on a texture of width x height texels; uv in twelfths.
\* The returned colour is base + the sum over the texels of weights[texel]
\* times texture.lookup(texel), the weights in 144ths: one4!() for INVALID,
\* zero4!() for an empty texture, else the one or four lookups of
\* scene.rs:405-411.  `%` of f32 keeps the sign of uv, `as u32` truncates
eval_texture(texture_idx, width, height, uv, no_interpolation, clamp_to_edge) ==
    IF texture_idx = INVALID THEN [base |-> 144, weights |-> <<>>]
    ELSE IF width = 0 \/ height = 0 THEN [base |-> 0, weights |-> <<>>]
    ELSE
    LET Rem(x) == IF x < 0 THEN 0 - ((0 - x) % 12) ELSE x % 12
        Coord(x, size) ==
            IF clamp_to_edge
            THEN (IF x < 0 THEN 0 ELSE IF x > 12 THEN 12 ELSE x) * size
            ELSE IF Rem(x) * size < 0 THEN Rem(x) * size + 12 * size
                 ELSE Rem(x) * size
        s == Coord(uv[1], width)
        t == Coord(uv[2], height)
        i == IF s \div 12 > width - 1 THEN width - 1 ELSE s \div 12
        j == IF t \div 12 > height - 1 THEN height - 1 ELSE t \div 12
        ii == (i + 1) % width
        jj == (j + 1) % height
        u == s - 12 * i
        v == t - 12 * j
        At(texel, a, b, w) == IF texel = <<a, b>> THEN w ELSE 0
    IN [base |-> 0,
        weights |->
          [texel \in (0 .. width - 1) \X (0 .. height - 1) |->
             IF no_interpolation THEN At(texel, i, j, 144)
             ELSE At(texel, i, j, (12 - u) * (12 - v))
                  + At(texel, i, jj, (12 - u) * v)
                  + At(texel, ii, j, u * (12 - v))
                  + At(texel, ii, jj, u * v)]]

\* ------------------------------------------------------------------------
\* eval_material (scene.rs:415-482)
\* ------------------------------------------------------------------------
\* inputs of eval_material: the family, material.roughness * roughness_tex.y
\* in hundredths (a scene file may hold any number), one channel of the
\* textured colour in hundredths, and trdepth
MaterialInputs ==
    [m_type : MaterialType, roughness : {-2, 0, 1, 2, 3, 50, 100, 150},
     color : {0, 50, 100, 200}, trdepth : {0, 1}]

\* the `fix roughness` block (scene.rs:455-467) on a squared roughness in
\* units of 0.0001, where MIN_ROUGHNESS is 9 and 1.0 is 10000
FixRoughnessKeepsSmall(t, squared) ==
    IF t \in {"Matte", "Gltfpbr", "Glossy"}
    THEN IF squared < 9 * MIN_ROUGHNESS THEN 9 * MIN_ROUGHNESS
         ELSE IF squared > 10000 THEN 10000 ELSE squared
    ELSE IF t = "Volumetric" THEN 0
    ELSE squared
FixRoughness(t, squared) ==
    IF t \in {"Matte", "Gltfpbr", "Glossy"}
    THEN IF squared < 9 * MIN_ROUGHNESS THEN 9 * MIN_ROUGHNESS
         ELSE IF squared > 10000 THEN 10000 ELSE squared
    ELSE IF t = "Volumetric" THEN 0
    ELSE IF squared < 9 * MIN_ROUGHNESS THEN 0 ELSE squared

\* scene.rs:415-482: the roughness (units of 0.0001) and one channel of the
\* density (hundredths) of the returned MaterialPoint.
\* -log(clamp(color, 0.0001, 1.0)) is 9.21 at 0.0001, 0.69 at 0.5 and 0 at 1
eval_material(mat) ==
    LET squared == mat.roughness * mat.roughness
        clamped == IF mat.color < 1 THEN 0
                   ELSE IF mat.color > 100 THEN 100 ELSE mat.color
        neglog == CASE clamped = 0 -> 921 [] clamped = 50 -> 69
                    [] clamped = 100 -> 0
    IN [m_type |-> mat.m_type,
        roughness |-> FixRoughness(mat.m_type, squared),
        density |-> IF mat.m_type \in {"Refractive", "Volumetric",
                                            "Subsurface"}
                    THEN IF mat.trdepth = 0 THEN NonFinite
                         ELSE neglog \div mat.trdepth
                    ELSE 0]

Call_from_scene(resolution, aspect, seeds) ==
    /\ invoked = NoCall
    /\ invoked' = [fn |-> "from_scene", resolution |-> resolution,
                   aspect |-> aspect]
    /\ result' = from_scene(resolution, aspect, seeds)

Call_sample_bsdfcos(m, normal, outgoing, rnl, halfway) ==
    /\ invoked = NoCall
    /\ invoked' = [fn |-> "sample_bsdfcos", material |-> m, normal |-> normal,
                   outgoing |-> outgoing, rnl |-> rnl, halfway |-> halfway]
    /\ result' = sample_bsdfcos(m, normal, outgoing, rnl, halfway)

Call_eval_texture(texture_idx, width, height, uv, no_interpolation, clamp_to_edge) ==
    /\ invoked = NoCall
    /\ invoked' = [fn |-> "eval_texture", texture_idx |-> texture_idx,
                   width |-> width, height |-> height, uv |-> uv,
                   no_interpolation |-> no_interpolation,
                   clamp_to_edge |-> clamp_to_edge]
    /\ result' = eval_texture(texture_idx, width, height, uv,
                              no_interpolation, clamp_to_edge)

Call_eval_material(mat) ==
    /\ invoked = NoCall
    /\ invoked' = [fn |-> "eval_material", material |-> mat]
    /\ result' = eval_material(mat)

Call_sample_delta(m, normal, outgoing, rnl) ==
    /\ invoked = NoCall
    /\ invoked' = [fn |-> "sample_delta", material |-> m, normal |-> normal,
                   outgoing |-> outgoing, rnl |-> rnl]
    /\ result' = sample_delta(m, normal, outgoing, rnl)

Call_eval_delta(m, normal, outgoing, incoming) ==
    /\ invoked = NoCall
    /\ invoked' = [fn |-> "eval_delta", material |-> m, normal |-> normal,
                   outgoing |-> outgoing, incoming |-> incoming]
    /\ result' = eval_delta(m, normal, outgoing, incoming)

Call_sample_delta_pdf(m, normal, outgoing, incoming) ==
    /\ invoked = NoCall
    /\ invoked' = [fn |-> "sample_delta_pdf", material |-> m,
                   normal |-> normal, outgoing |-> outgoing,
                   incoming |-> incoming]
    /\ result' = sample_delta_pdf(m, normal, outgoing, incoming)

\* the caller takes the value
FnReturn ==
    /\ invoked # NoCall
    /\ invoked' = NoCall
    /\ result' = 0

FnNext ==
    \/ /\ invoked = NoCall
       /\ \E m \in BsdfPoints, normal \in Dirs, outgoing \in Dirs,
             incoming \in Dirs :
            Call_eval_bsdfcos(m, normal, outgoing, incoming)
              /\ UNCHANGED <<drvVars, nlights, pathVars>>
    \/ /\ invoked = NoCall
       /\ \E m \in BsdfPoints, normal \in Dirs, outgoing \in Dirs,
             incoming \in Dirs :
            Call_sample_bsdfcos_pdf(m, normal, outgoing, incoming)
              /\ UNCHANGED <<drvVars, nlights, pathVars>>
    \/ /\ invoked = NoCall
       /\ \E ws \in ElemWeights \cup LargeWeights, r \in RValues :
            Call_sample_discrete(ws, r)
              /\ UNCHANGED <<drvVars, nlights, pathVars>>
    \/ /\ invoked = NoCall
       /\ \E ws \in ElemWeights, idx \in 0 .. (MaxElems - 1) :
            Call_sample_discrete_pdf(ws, idx)
              /\ UNCHANGED <<drvVars, nlights, pathVars>>
    \/ /\ invoked = NoCall
       /\ \E scene \in Scenes :
            Call_init_lights(scene)
              /\ UNCHANGED <<drvVars, nlights, pathVars>>
    \/ /\ invoked = NoCall
       /\ \E resolution \in Resolutions, aspect \in Aspects :
            \E seeds \in [Pixels -> Seeds] :
                Call_from_scene(resolution, aspect, seeds)
                  /\ UNCHANGED <<drvVars, nlights, pathVars>>
    \/ /\ invoked = NoCall
       /\ \E m \in DeltaPoints, normal \in AxisNormals, outgoing \in Dirs,
             rnl \in Rnls :
            Call_sample_delta(m, normal, outgoing, rnl)
              /\ UNCHANGED <<drvVars, nlights, pathVars>>
    \/ /\ invoked = NoCall
       /\ \E m \in DeltaPoints, normal \in AxisNormals, outgoing \in Dirs,
             incoming \in Dirs :
            Call_eval_delta(m, normal, outgoing, incoming)
              /\ UNCHANGED <<drvVars, nlights, pathVars>>
    \/ /\ invoked = NoCall
       /\ \E m \in DeltaPoints, normal \in AxisNormals, outgoing \in Dirs,
             incoming \in Dirs :
            Call_sample_delta_pdf(m, normal, outgoing, incoming)
              /\ UNCHANGED <<drvVars, nlights, pathVars>>
    \/ /\ invoked = NoCall
       /\ \E mat \in MaterialInputs :
            Call_eval_material(mat)
              /\ UNCHANGED <<drvVars, nlights, pathVars>>
    \/ /\ invoked = NoCall
       /\ \E texture_idx \in {INVALID, 0}, width \in 0 .. 3, height \in 0 .. 3,
             uv \in {-3, 0, 6, 11, 12, 15} \X {-3, 0, 6, 11, 12, 15},
             no_interpolation \in BOOLEAN, clamp_to_edge \in BOOLEAN :
            Call_eval_texture(texture_idx, width, height, uv,
                              no_interpolation, clamp_to_edge)
              /\ UNCHANGED <<drvVars, nlights, pathVars>>
    \/ /\ invoked = NoCall
       /\ \E m \in [m_type : {"Transparent", "Refractive", "Subsurface"},
                     roughness : {MIN_ROUGHNESS}, ior : Iors],
             normal \in Dirs, outgoing \in Dirs, rnl \in Rnls :
            \E halfway \in {h \in Dirs :
                               dot(h, UpNormal(normal, outgoing)) > 0} :
                Call_sample_bsdfcos(m, normal, outgoing, rnl, halfway)
                  /\ UNCHANGED <<drvVars, nlights, pathVars>>
    \/ FnReturn /\ UNCHANGED <<drvVars, nlights, pathVars>>

FnSpec == FnInit /\ [][FnNext]_vars

\* ------------------------------------------------------------------------
\* Properties of the shading functions (specification FnSpec)
\* ------------------------------------------------------------------------

\* C14 as claimed: for Matte, Glossy, Reflective and Gltfpbr material
\* points eval_bsdfcos and sample_bsdfcos_pdf return exactly 0 whenever
\* dot(normal,incoming) * dot(normal,outgoing) <= 0.
C14_ZeroAcrossHemispheres ==
    (/\ invoked.fn \in {"eval_bsdfcos", "sample_bsdfcos_pdf"}
     /\ invoked.material.m_type \in ReflectiveFamilies
     /\ OppositeSides(invoked.normal, invoked.outgoing, invoked.incoming))
        => result = 0

C16_LightCdfPerElement ==
    invoked.fn = "init_lights" =>
        LET instances == invoked.scene.instances
            environments == invoked.scene.environments
            ElementsOf(light) ==
                IF light.instance # INVALID
                THEN IF instances[light.instance + 1].triangles # <<>>
                     THEN instances[light.instance + 1].triangles
                     ELSE instances[light.instance + 1].quads
                ELSE environments[light.environment + 1].texels
        IN /\ \A k \in 1 .. Len(result) :
                (result[k].instance # INVALID
                   \/ environments[result[k].environment + 1].emission_tex # INVALID)
                => LET cdf == result[k].elements_cdf
                       elements == ElementsOf(result[k])
                   IN /\ Len(cdf) = Len(elements)
                      /\ \A j \in 2 .. Len(cdf) : cdf[j - 1] <= cdf[j]
                      /\ cdf # <<>> => cdf[Len(cdf)] = SumSeq(elements)
           /\ \A h \in 1 .. Len(instances) :
                (instances[h].emission = 0
                   \/ (instances[h].triangles = <<>> /\ instances[h].quads = <<>>))
                => \A k \in 1 .. Len(result) : result[k].instance # h - 1
           /\ \A h \in 1 .. Len(instances) :
                (instances[h].emission # 0
                   /\ (instances[h].triangles # <<>> \/ instances[h].quads # <<>>))
                => \E k \in 1 .. Len(result) : result[k].instance = h - 1

\* C16 witness: an emissive instance of three triangles got a light whose
\* cdf accumulates their areas.
C16_Witness ==
    /\ invoked.fn = "init_lights"
    /\ Len(result) = 1
    /\ result[1].instance = 0
    /\ invoked.scene.instances[1].triangles = <<1, 2, 3>>
    /\ result[1].elements_cdf = <<1, 3, 6>>

\* C17: the state from_scene builds has its longer edge equal to
\* params.resolution and its shorter edge equal to resolution / aspect
\* (aspect >= 1) or resolution * aspect (aspect < 1) rounded to the nearest
\* integer, samples = 0, an image of width * height zero vectors and
\* width * height generators.
C17_StateFromScene ==
    invoked.fn = "from_scene" =>
        LET num == invoked.aspect[1]
            den == invoked.aspect[2]
            resolution == invoked.resolution
            long == IF num >= den THEN result.width ELSE result.height
            short == IF num >= den THEN result.height ELSE result.width
            \* twice the distance of `short` from the exact quotient, as a
            \* fraction over the larger of num and den
            twice == IF num >= den THEN 2 * (short * num - resolution * den)
                     ELSE 2 * (short * den - resolution * num)
            over == IF num >= den THEN num ELSE den
        IN /\ long = resolution
           /\ short <= long
           /\ -over < twice /\ twice <= over
           /\ result.samples = 0
           /\ Len(result.image) = result.width * result.height
           /\ \A k \in 1 .. Len(result.image) : result.image[k] = 0
           /\ Len(result.rngs) = result.width * result.height

\* C17 witness: resolution 3 at aspect 2 gave a 3 x 2 state, the half of
\* 1.5 rounded up.
C17_Witness ==
    /\ invoked.fn = "from_scene"
    /\ invoked.resolution = 3
    /\ invoked.aspect = <<2, 1>>
    /\ result.width = 3
    /\ result.height = 2
    /\ Len(result.rngs) = 6

\* C18: with params.bounces = 1, a shade_raytrace path whose primary ray hits
\* a non-emissive Matte floor lit by one emissive quad returns the direct
\* lighting of the floor: once light sampling has given it a direction of
\* positive weight (a direction that reaches the quad), the radiance it
\* returns is positive.
C18_DirectLightWithOneBounce ==
    [](( /\ ppc = "sample"
         /\ integrator = "raytrace"
         /\ bounces = 1
         /\ nlights = 1
         /\ inside = 0
         /\ skips = 0
         /\ material.m_type = "Matte"
         /\ radiance = 0 )
       => []( (ppc = "check" /\ sampler = "lights" /\ ~BadWeight(weight))
              => [](ppc = "returned" => radiance > 0) ))

\* C19: shade_naive never samples the lights and keeps no volume stack:
\* every next direction comes from sample_bsdfcos at a non-delta point and
\* from sample_delta at a delta point, and the weight changes only by the
\* eval/pdf quotient of that strategy (and by the roulette).
C19_NaiveSamplesBsdfOnly ==
    [][ integrator = "naive" =>
          /\ volume_stack' = <<>>
          /\ ppc' \notin {"medium", "panic"}
          /\ sampler' \notin {"lights", "phase"}
          /\ (ppc = "sample" =>
                sampler' = IF is_delta(material) THEN "delta" ELSE "bsdf")
          /\ (ppc = "sample" /\ ppc' = "check" =>
                \E fac \in DirFactors(material, sampler') :
                    weight' = Mul(weight, fac))
          /\ (weight' # weight =>
                ppc = "sample" \/ (ppc = "check" /\ bounce > 3))
      ]_vars

\* C19 witness: shade_naive has scaled the weight by the quotient of a
\* direction from sample_bsdfcos, with lights in the scene.
C19_Witness ==
    /\ integrator = "naive"
    /\ nlights = 1
    /\ ppc = "check"
    /\ sampler = "bsdf"
    /\ weight = 10
    /\ bounce = 1

\* C20: at a Refractive point of roughness 0 whose ior is within 0.001 of 1,
\* sample_delta returns exactly -outgoing, and eval_delta and
\* sample_delta_pdf are both 1 for that direction, so that their quotient
\* leaves the weight unchanged.
C20_ThinRefractionPassesThrough ==
    (/\ invoked.fn \in {"sample_delta", "eval_delta", "sample_delta_pdf"}
     /\ invoked.material.m_type = "Refractive"
     /\ invoked.material.roughness = 0
     /\ Abs(invoked.material.ior - 100) * 10 < 1)
        => LET m == invoked.material
               n == invoked.normal
               o == invoked.outgoing
           IN /\ invoked.fn = "sample_delta" =>
                    /\ result = Neg(o)
                    /\ eval_delta(m, n, o, result) = 100
                    /\ sample_delta_pdf(m, n, o, result) = 100
              /\ (invoked.fn # "sample_delta" /\ invoked.incoming = Neg(o))
                    => result = 100

\* C20 witness: sample_delta at a thin Refractive point, called with an
\* outgoing direction grazing the surface, returned its opposite.
C20_Witness ==
    /\ invoked.fn = "sample_delta"
    /\ invoked.material = [m_type |-> "Refractive", roughness |-> 0, ior |-> 100]
    /\ invoked.normal = <<0, 5>>
    /\ invoked.outgoing = <<5, 0>>
    /\ result = <<-5, 0>>

\* C22: at a shaded surface hit on a delta material (Reflective, Refractive
\* or Transparent of roughness 0, or Volumetric) shade_raytrace takes the next
\* direction from sample_delta only and scales the weight by
\* eval_delta / sample_delta_pdf only; the lights are not sampled in that
\* iteration, and a zero direction ends the path with the weight unchanged.
C22_DeltaHitUsesDeltaLobeOnly ==
    [][ ( /\ integrator = "raytrace"
          /\ ppc = "sample"
          /\ \/ (material.m_type \in {"Reflective", "Refractive", "Transparent"}
                   /\ material.roughness = 0)
             \/ material.m_type = "Volumetric" )
        => /\ sampler' = "delta"
           /\ ppc' \in {"check", "absorbed"}
           /\ ppc' = "absorbed" =>
                (weight' = weight /\ radiance' = radiance
                   /\ volume_stack' = volume_stack)
           /\ ppc' = "check" =>
                (\E fac \in DirFactors(material, "delta") :
                     weight' = Mul(weight, fac))
      ]_vars

\* C22 witness: shade_raytrace, in a scene with lights, ended a path at a
\* Refractive delta point whose sample_delta returned the zero direction,
\* the weight still what earlier bounces had left.
C22_Witness ==
    /\ integrator = "raytrace"
    /\ nlights = 1
    /\ ppc = "absorbed"
    /\ sampler = "delta"
    /\ material = [m_type |-> "Refractive", roughness |-> 0]
    /\ weight = 10
    /\ bounce = 1

C26_VolumeStackAtMostOne ==
    [][ /\ Len(volume_stack') <= 1
        /\ volume_stack' # volume_stack =>
              /\ integrator = "raytrace"
              /\ ppc = "sample"
              /\ material.m_type \in {"Refractive", "Volumetric", "Subsurface"}
              /\ volume_stack' = IF volume_stack = <<>> THEN <<material>>
                                 ELSE <<>>
      ]_vars

\* C26 witness: the path sits inside two nested media and the crossing into
\* the second one has popped the stack to empty.
C26_Witness ==
    /\ integrator = "raytrace"
    /\ ppc = "check"
    /\ inside = 2
    /\ volume_stack = <<>>
    /\ events = 2

\* C27: in shade_naive and shade_raytrace a shaded hit on a Volumetric
\* material ends the path in that iteration: the point is delta, sample_delta
\* returns the zero direction for it, the weight and the volume stack stay
\* as they are, and no Volumetric point is ever on the volume stack.
C27_VolumetricHitEndsPath ==
    [][ /\ (ppc = "sample" /\ material.m_type = "Volumetric") =>
              /\ ppc' = "absorbed"
              /\ sampler' = "delta"
              /\ weight' = weight
              /\ volume_stack' = volume_stack
        /\ \A k \in 1 .. Len(volume_stack') :
              volume_stack'[k].m_type # "Volumetric"
      ]_vars

\* C27 witness: shade_raytrace ended a path at a Volumetric point reached on
\* its second bounce.
C27_Witness ==
    /\ integrator = "raytrace"
    /\ ppc = "absorbed"
    /\ sampler = "delta"
    /\ material.m_type = "Volumetric"
    /\ bounce = 1

\* C28 as claimed: state.samples never exceeds params.samples, and a
\* raytrace_samples call made when state.samples >= params.samples returns
\* with state.samples, state.image and the generators unchanged.
C28_SamplesNeverExceedCap ==
    [][ /\ samples' <= psamples
        /\ (calls' = calls + 1 /\ samples >= psamples =>
              UNCHANGED <<samples, image, rngs>>)
      ]_vars

\* C28 amended: state.samples never exceeds params.samples when that is not
\* negative and stays 0 when it is negative, and a raytrace_samples call
\* made when state.samples >= params.samples returns with state.samples,
\* every slot of state.image and every generator unchanged.
C28_SamplesNeverExceedNonNegativeCap ==
    [][ /\ samples' <= (IF psamples < 0 THEN 0 ELSE psamples)
        /\ (calls' = calls + 1 /\ samples >= psamples =>
              /\ UNCHANGED <<samples, image, rngs>>
              /\ dpc' = "idle")
      ]_vars

\* C28 witness: with params.samples = 1 one call rendered a sample and two
\* further calls returned at the cap.
C28_Witness ==
    dpc = "idle" /\ psamples = 1 /\ samples = 1 /\ calls = 3

\* C29: a call of shade_naive or shade_raytrace in which no opacity skip
\* occurs issues at most params.bounces intersection queries and then
\* returns: every iteration that does not end the path increases bounce by
\* exactly 1, and with params.bounces <= 0 the call returns (0, 0, 0, 0)
\* without an intersection query.
C29_ReturnsWithinBounces ==
    /\ [][ skips' = 0 =>
             /\ (ppc = "loop" /\ ppc' \in {"surface", "medium", "escaped"}) =>
                    (0 <= bounce /\ bounce < bounces)
             /\ (ppc = "check" /\ ppc' = "loop") => bounce' = bounce + 1
             /\ bounce' # bounce => (ppc = "check" /\ ppc' = "loop")
             /\ (ppc' = "returned" /\ bounces <= 0) =>
                    (radiance' = 0 /\ hit_alpha' = 0 /\ events' = 0
                       /\ bounce' = 0)
         ]_vars
    /\ ([](skips = 0) =>
          <>(ppc \in {"returned", "escaped", "absorbed", "extinguished",
                      "roulette"}))

\* C30: for a cdf of n >= 1 entries built from non-negative weights whose
\* total is at least 0.00001, and any r in [0, 1], sample_discrete returns an
\* index in 0 .. n-1 whose sample_discrete_pdf is strictly positive: an
\* element of weight zero is never selected.
C30_NeverSelectsZeroWeight ==
    (/\ invoked.fn = "sample_discrete"
     /\ invoked.cdf[Len(invoked.cdf)] >= Eps)
        => /\ result \in 0 .. (Len(invoked.cdf) - 1)
           /\ sample_discrete_pdf(invoked.cdf, result) > 0

\* C23: for every MaterialPoint returned by eval_material the roughness is
\* the squared textured roughness clamped to [MIN_ROUGHNESS, 1] for Matte,
\* Glossy and Gltfpbr, exactly 0 for Volumetric, and for the other four
\* families 0 when the squared value is below MIN_ROUGHNESS and the squared
\* value otherwise, so it never lies strictly between 0 and MIN_ROUGHNESS;
\* the density is non-zero only for Refractive, Volumetric and Subsurface.
C23_RoughnessFixedAndDensityByFamily ==
    invoked.fn = "eval_material" =>
        LET t == invoked.material.m_type
            squared == invoked.material.roughness * invoked.material.roughness
            least == 9 * MIN_ROUGHNESS
        IN /\ t \in {"Matte", "Glossy", "Gltfpbr"} =>
                /\ result.roughness >= least /\ result.roughness <= 10000
                /\ (squared >= least /\ squared <= 10000)
                       => result.roughness = squared
                /\ squared < least => result.roughness = least
                /\ squared > 10000 => result.roughness = 10000
           /\ t = "Volumetric" => result.roughness = 0
           /\ t \in {"Reflective", "Transparent", "Refractive", "Subsurface"} =>
                result.roughness = IF squared < least THEN 0 ELSE squared
           /\ ~(0 < result.roughness /\ result.roughness < least)
           /\ result.density # 0 =>
                t \in {"Refractive", "Volumetric", "Subsurface"}

\* C23 witness: a Refractive material whose squared roughness 0.0004 lies
\* below MIN_ROUGHNESS came back with roughness 0 and a non-zero density.
C23_Witness ==
    /\ invoked.fn = "eval_material"
    /\ invoked.material.m_type = "Refractive"
    /\ invoked.material.roughness = 2
    /\ result.roughness = 0
    /\ result.density = 69

\* C24: eval_texture with clamp_to_edge = true uses edge-clamp addressing:
\* for every uv, uv.x = 1 and uv.y = 1 included, no texel of the opposite
\* edge of the texture contributes to the result with a non-zero weight (a
\* sample in the last column takes nothing from column 0, a sample in the
\* last row nothing from row 0).
C24_ClampToEdgeNeverWraps ==
    (/\ invoked.fn = "eval_texture"
     /\ invoked.clamp_to_edge
     /\ invoked.texture_idx # INVALID
     /\ invoked.width > 0 /\ invoked.height > 0)
        => LET Clamp01(x) == IF x < 0 THEN 0 ELSE IF x > 12 THEN 12 ELSE x
               Last(x, size) == Clamp01(x) * size >= 12 * (size - 1)
           IN \A texel \in DOMAIN result.weights :
                result.weights[texel] # 0 =>
                    /\ (invoked.width >= 2
                          /\ Last(invoked.uv[1], invoked.width))
                           => texel[1] # 0
                    /\ (invoked.height >= 2
                          /\ Last(invoked.uv[2], invoked.height))
                           => texel[2] # 0

\* C21: at a Refractive or Subsurface point of roughness > 0 the
\* transmission branch of sample_bsdfcos (rnl not below the Fresnel term)
\* returns the zero vector or a direction on the opposite side of the
\* surface from outgoing, and the reflection branch returns the zero vector
\* or a direction on the same side as outgoing.
C21_RoughRefractionCrossesSurface ==
    (/\ invoked.fn = "sample_bsdfcos"
     /\ invoked.material.m_type \in {"Refractive", "Subsurface"}
     /\ invoked.material.roughness > 0)
        => LET up == UpNormal(invoked.normal, invoked.outgoing)
               fresnel == fresnel_dielectric(
                              RelIor(invoked.material, invoked.normal,
                                     invoked.outgoing),
                              invoked.halfway, invoked.outgoing)
               side == dot(up, invoked.outgoing) * dot(up, result)
           IN \/ result = ZeroVec
              \/ IF Less(invoked.rnl, fresnel) THEN side >= 0 ELSE side <= 0

====
